---- MODULE Spec2Model ----
(***************************************************************************)
(* A model of the chatbot backend: src/app.py (the intent parser, the chat *)
(* provider dispatcher and the four request handlers) and                  *)
(* src/google_workspace_mcp.py (the workspace action executor and its      *)
(* OAuth credential acquisition).                                          *)
(*                                                                         *)
(* Text is modelled as a sequence of one-character strings, so that the    *)
(* regular expressions, strip() and lower() are computed character by      *)
(* character, as the code computes them.                                   *)
(***************************************************************************)
EXTENDS Integers, Sequences, FiniteSets, TLC

-----------------------------------------------------------------------------
(* Characters and the str methods the code uses.                           *)

BS == "\\"

UpperChars == <<"A","B","C","D","E","F","G","H","I","J","K","L","M",
               "N","O","P","Q","R","S","T","U","V","W","X","Y","Z">>

LowerChars == <<"a","b","c","d","e","f","g","h","i","j","k","l","m",
               "n","o","p","q","r","s","t","u","v","w","x","y","z">>

\* str.lower() on one character.
LowerChar(c) ==
  IF \E i \in 1..Len(UpperChars) : UpperChars[i] = c
    THEN LowerChars[CHOOSE i \in 1..Len(UpperChars) : UpperChars[i] = c]
    ELSE c

\* str.lower()
Lower(s) == [i \in 1..Len(s) |-> LowerChar(s[i])]

\* The characters str.strip() removes.
IsSpace(c) == c \in {" ", "\t", "\n", "\r"}

\* str.strip()
Strip(s) ==
  LET keep == {i \in 1..Len(s) : ~IsSpace(s[i])}
      lo   == CHOOSE i \in keep : \A j \in keep : i <= j
      hi   == CHOOSE i \in keep : \A j \in keep : j <= i
  IN  IF keep = {} THEN <<>> ELSE SubSeq(s, lo, hi)

\* s[p:] of Python, for a 1-based position p.
From(s, p) == SubSeq(s, p, Len(s))

\* str.startswith(w) at position p, after lower(): how re.IGNORECASE matches
\* a literal, and how remainder.lower().startswith("subject") is decided.
LitAt(s, p, w) ==
  /\ p >= 1
  /\ p + Len(w) - 1 <= Len(s)
  /\ \A j \in 1..Len(w) : LowerChar(s[p + j - 1]) = w[j]

-----------------------------------------------------------------------------
(* The three patterns of app.py.  Each is written in a raw string with a   *)
(* doubled backslash: r"\\s+" is the regular expression  \\s+ , which      *)
(* matches one backslash character followed by one or more letters s (or   *)
(* S under IGNORECASE), and r"[^\\s]" is the class of every character but  *)
(* the backslash and the letter s.                                         *)

W_send_email_to == <<"s","e","n","d"," ","e","m","a","i","l"," ","t","o">>
W_subject       == <<"s","u","b","j","e","c","t">>
W_body          == <<"b","o","d","y">>
W_message       == <<"m","e","s","s","a","g","e">>
W_delete_email  == <<"d","e","l","e","t","e"," ","e","m","a","i","l">>
W_list_emails   == <<"l","i","s","t"," ","e","m","a","i","l","s">>

\* A character the element  s  of a pattern matches under IGNORECASE.
IsS(c) == LowerChar(c) = "s"

\* [^\\s] : anything but a backslash or the letter s.
IsToChar(c) == c /= BS /\ ~IsS(c)

\* [\\w-] : a backslash, the letter w, or a hyphen.
IsIdChar(c) == c = BS \/ LowerChar(c) = "w" \/ c = "-"

\* . without DOTALL
IsDot(c) == c /= "\n"

Max(S) == CHOOSE n \in S : \A k \in S : k <= n
Min(S) == CHOOSE n \in S : \A k \in S : n <= k

\* The length of the longest run of letters s starting at position p.
SRun(s, p) ==
  IF p > Len(s) THEN 0
  ELSE Max({n \in 0..(Len(s) - p + 1) : \A j \in 0..(n - 1) : IsS(s[p + j])})

\* The length of the longest run of [^\\s] characters starting at p.
ToRun(s, p) ==
  IF p > Len(s) THEN 0
  ELSE Max({n \in 0..(Len(s) - p + 1) : \A j \in 0..(n - 1) : IsToChar(s[p + j])})

\* The length of the longest run of [\\w-] characters starting at p.
IdRun(s, p) ==
  IF p > Len(s) THEN 0
  ELSE Max({n \in 0..(Len(s) - p + 1) : \A j \in 0..(n - 1) : IsIdChar(s[p + j])})

\* \\s+ at position p: a backslash, then at least one s.
EscSAt(s, p) == p <= Len(s) /\ s[p] = BS /\ SRun(s, p + 1) >= 1

\* The position after the longest match of \\s+ at position p.
AfterEscS(s, p) == p + 1 + SRun(s, p + 1)

\* $ at position p: the end of the string, or just before a final newline.
AtEnd(s, p) == p = Len(s) + 1 \/ (p = Len(s) /\ s[p] = "\n")

\* A match of what follows the recipient or the subject: whether the body
\* group took part, and where the body starts.
NoTrailer == [ok |-> FALSE, hasBody |-> FALSE, bStart |-> 0]

\* \\s+(?P<body>.+)$ at position q, after the keyword: the \\s+ is greedy
\* and gives back only what .+ needs; .+ (DOTALL) runs to the end.
BodyCapture(s, q) ==
  IF ~EscSAt(s, q) THEN NoTrailer
  ELSE IF AfterEscS(s, q) <= Len(s)
    THEN [ok |-> TRUE, hasBody |-> TRUE, bStart |-> AfterEscS(s, q)]
  ELSE IF SRun(s, q + 1) >= 2
    THEN [ok |-> TRUE, hasBody |-> TRUE, bStart |-> Len(s)]
  ELSE NoTrailer

\* (?:body|message) at position q, then the capture.
BodyKeyword(s, q) ==
  IF LitAt(s, q, W_body) THEN BodyCapture(s, q + Len(W_body))
  ELSE IF LitAt(s, q, W_message) THEN BodyCapture(s, q + Len(W_message))
  ELSE NoTrailer

\* (?:\\s+(?:body|message)\\s+(?P<body>.+))$ at position p.  Neither
\* keyword starts with s, so the first \\s+ takes its whole run.
BodyGroup(s, p) ==
  IF EscSAt(s, p) THEN BodyKeyword(s, AfterEscS(s, p)) ELSE NoTrailer

\* What follows the recipient or the subject, at position p: the optional
\* body group (tried first), then $.
Trailer(s, p) ==
  IF BodyGroup(s, p).ok THEN BodyGroup(s, p)
  ELSE IF AtEnd(s, p) THEN [ok |-> TRUE, hasBody |-> FALSE, bStart |-> 0]
  ELSE NoTrailer

NoSend ==
  [ok |-> FALSE, toStart |-> 0, toEnd |-> 0, hasSubject |-> FALSE,
   sStart |-> 0, sEnd |-> 0, hasBody |-> FALSE, bStart |-> 0]

\* The first choice the backtracking reaches: the longest \\s+ (c[1]), then
\* the shortest capture (it ends at c[2]).
FirstSubject(C) ==
  CHOOSE a \in C : \A b \in C : a[1] > b[1] \/ (a[1] = b[1] /\ a[2] <= b[2])

\* The match with the subject c of the candidates C, after a recipient at
\* t..e and a subject keyword ending before q.
SubjectMatch(s, t, e, q, C) ==
  IF C = {} THEN NoSend
  ELSE [ok |-> TRUE, toStart |-> t, toEnd |-> e, hasSubject |-> TRUE,
        sStart |-> q + 1 + FirstSubject(C)[1], sEnd |-> FirstSubject(C)[2],
        hasBody |-> Trailer(s, FirstSubject(C)[2] + 1).hasBody,
        bStart |-> Trailer(s, FirstSubject(C)[2] + 1).bStart]

\* \\s+(?P<subject>.+?) at position q, followed by the trailer: the \\s+
\* is greedy, the capture lazy, and what follows must match.
SubjectCapture(s, t, e, q) ==
  IF ~EscSAt(s, q) THEN NoSend
  ELSE SubjectMatch(s, t, e, q,
         {c \in (1..SRun(s, q + 1)) \X (1..Len(s)) :
            c[2] >= q + 1 + c[1] /\ Trailer(s, c[2] + 1).ok})

\* subject at position p + 1 + k for the longest k the run of s allows.
SubjectKeyword(s, t, e, p, K) ==
  IF K = {} THEN NoSend
  ELSE SubjectCapture(s, t, e, p + 1 + Max(K) + Len(W_subject))

\* (?:\\s+subject\\s+(?P<subject>.+?)) at position e + 1, after a
\* recipient at t..e, followed by the trailer.
SubjectGroup(s, t, e) ==
  IF ~EscSAt(s, e + 1) THEN NoSend
  ELSE SubjectKeyword(s, t, e, e + 1,
         {k \in 1..SRun(s, e + 2) : LitAt(s, e + 2 + k, W_subject)})

\* The match with the recipient at t..e: the subject group is tried first.
SendWithTo(s, t, e) ==
  IF SubjectGroup(s, t, e).ok THEN SubjectGroup(s, t, e)
  ELSE IF Trailer(s, e + 1).ok
    THEN [ok |-> TRUE, toStart |-> t, toEnd |-> e, hasSubject |-> FALSE,
          sStart |-> 0, sEnd |-> 0,
          hasBody |-> Trailer(s, e + 1).hasBody,
          bStart |-> Trailer(s, e + 1).bStart]
  ELSE NoSend

\* (?P<to>[^\\s]+) at position t, greedy: the longest recipient after
\* which the rest matches.
SendTo(s, t, E) == IF E = {} THEN NoSend ELSE SendWithTo(s, t, Max(E))

\* The recipient starts at t: its candidates, longest first.
SendFrom(s, t) ==
  SendTo(s, t, {e \in t..(t + ToRun(s, t) - 1) : SendWithTo(s, t, e).ok})

\* SEND_EMAIL_PATTERN matched at start position i.
SendMatchAt(s, i) ==
  IF LitAt(s, i, W_send_email_to) /\ EscSAt(s, i + Len(W_send_email_to))
    THEN SendFrom(s, AfterEscS(s, i + Len(W_send_email_to)))
    ELSE NoSend

\* The leftmost of the start positions I.
SendFirst(s, I) == IF I = {} THEN NoSend ELSE SendMatchAt(s, Min(I))

\* SEND_EMAIL_PATTERN.search(message): the leftmost start that matches.
SEND_EMAIL_PATTERN(s) ==
  SendFirst(s, {i \in 1..Len(s) : SendMatchAt(s, i).ok})

NoDelete == [ok |-> FALSE, id |-> <<>>]

\* delete email\\s+(?P<message_id>[\\w-]+) matched at start position i.
DeleteMatchAt(s, i) ==
  IF /\ LitAt(s, i, W_delete_email)
     /\ EscSAt(s, i + Len(W_delete_email))
     /\ IdRun(s, AfterEscS(s, i + Len(W_delete_email))) >= 1
    THEN [ok |-> TRUE,
          id |-> SubSeq(s, AfterEscS(s, i + Len(W_delete_email)),
                        AfterEscS(s, i + Len(W_delete_email))
                          + IdRun(s, AfterEscS(s, i + Len(W_delete_email))) - 1)]
    ELSE NoDelete

DeleteFirst(s, I) == IF I = {} THEN NoDelete ELSE DeleteMatchAt(s, Min(I))

\* DELETE_EMAIL_PATTERN.search(message)
DELETE_EMAIL_PATTERN(s) ==
  DeleteFirst(s, {i \in 1..Len(s) : DeleteMatchAt(s, i).ok})

NoList == [ok |-> FALSE, hasQuery |-> FALSE, qStart |-> 0, qEnd |-> 0]

\* The first choice the backtracking reaches: the longest \\s+ (c[1]), then
\* the longest capture (it ends at c[2]).
FirstQuery(C) ==
  CHOOSE a \in C : \A b \in C : a[1] > b[1] \/ (a[1] = b[1] /\ a[2] >= b[2])

\* The match after list emails at position p, with the query candidates C:
\* the query group is tried first, then $ alone.
ListMatch(s, p, C) ==
  IF C /= {}
    THEN [ok |-> TRUE, hasQuery |-> TRUE,
          qStart |-> p + 1 + FirstQuery(C)[1], qEnd |-> FirstQuery(C)[2]]
    ELSE [ok |-> AtEnd(s, p), hasQuery |-> FALSE, qStart |-> 0, qEnd |-> 0]

\* (?:\\s+(?P<query>.+))?$ at position p: the \\s+ is greedy but leaves .+
\* a character, and . does not match a newline.
ListQuery(s, p) ==
  ListMatch(s, p,
    {c \in (1..(IF EscSAt(s, p) THEN SRun(s, p + 1) ELSE 0)) \X (1..Len(s)) :
       /\ c[2] >= p + 1 + c[1]
       /\ \A j \in (p + 1 + c[1])..c[2] : IsDot(s[j])
       /\ AtEnd(s, c[2] + 1)})

\* LIST_EMAILS_PATTERN matched at start position i.
ListMatchAt(s, i) ==
  IF LitAt(s, i, W_list_emails) THEN ListQuery(s, i + Len(W_list_emails))
  ELSE NoList

ListFirst(s, I) == IF I = {} THEN NoList ELSE ListMatchAt(s, Min(I))

\* LIST_EMAILS_PATTERN.search(s)
LIST_EMAILS_PATTERN(s) ==
  ListFirst(s, {i \in 1..Len(s) : ListMatchAt(s, i).ok})

NoIntent == [intent |-> "none"]

\* The body when the body group did not take part or captured nothing:
\* the text after the recipient, stripped, less a leading "subject".
Remainder(rem) ==
  IF LitAt(rem, 1, W_subject) THEN Strip(From(rem, Len(W_subject) + 1))
  ELSE rem

\* parse_chat_intent, the branch of a send match sm.
SendIntent(message, sm) ==
  [intent |-> "send_email",
   to |-> Strip(SubSeq(message, sm.toStart, sm.toEnd)),
   subject |-> IF sm.hasSubject
                 THEN Strip(SubSeq(message, sm.sStart, sm.sEnd)) ELSE <<>>,
   body |-> IF sm.hasBody
              THEN Strip(From(message, sm.bStart))
              ELSE Strip(Remainder(Strip(From(message, sm.toEnd + 1))))]

\* parse_chat_intent, the branch of a list match lm of the stripped message.
ListIntent(stripped, lm) ==
  IF lm.ok
    THEN [intent |-> "list_emails",
          query |-> IF lm.hasQuery
                      THEN Strip(SubSeq(stripped, lm.qStart, lm.qEnd))
                      ELSE <<>>]
    ELSE NoIntent

\* parse_chat_intent, after the send pattern did not match.
DeleteIntent(message, dm) ==
  IF dm.ok THEN [intent |-> "delete_email", message_id |-> Strip(dm.id)]
  ELSE ListIntent(Strip(message), LIST_EMAILS_PATTERN(Strip(message)))

\* parse_chat_intent, the three pattern tests in order.
FirstIntent(message, sm) ==
  IF sm.ok THEN SendIntent(message, sm)
  ELSE DeleteIntent(message, DELETE_EMAIL_PATTERN(message))

\* parse_chat_intent(message)
parse_chat_intent(message) == FirstIntent(message, SEND_EMAIL_PATTERN(message))

-----------------------------------------------------------------------------
(* Configuration.  Every from_env() reads os.environ, which no code of the *)
(* repository writes: the environment is chosen once and never changes.    *)
(* A variable is the empty string when unset.                              *)

EnvValues == {"", "v"}

Environments ==
  [client_id : EnvValues, client_secret : EnvValues,
   client_email : EnvValues, private_key : EnvValues,
   delegated_user : EnvValues,
   openai_api_key : EnvValues, openai_model : EnvValues,
   gemini_api_key : EnvValues, gemini_model : EnvValues]

NoEnv ==
  [client_id |-> "", client_secret |-> "", client_email |-> "",
   private_key |-> "", delegated_user |-> "", openai_api_key |-> "",
   openai_model |-> "", gemini_api_key |-> "", gemini_model |-> ""]

\* GoogleWorkspaceMCP._has_credentials
has_credentials(e) ==
  e.client_email /= "" /\ e.private_key /= "" /\ e.delegated_user /= ""

\* A slip in _has_oauth_config: "or" where the code has "and".
has_oauth_config_either(e) == e.client_id /= "" \/ e.client_secret /= ""

\* GoogleWorkspaceMCP._has_oauth_config
has_oauth_config(e) == e.client_id /= "" /\ e.client_secret /= ""

-----------------------------------------------------------------------------
(* The results of the executor.  A result is the set of keys of the        *)
(* returned dict together with the values of the keys the claims read; a   *)
(* key that is not in  keys  is absent from the dict.                      *)

PyNone == <<"None">>

MsgRequired      == "to, subject, and body are required."
MsgIdRequired    == "message_id is required."
MsgNotConfigured == "Google Workspace credentials are not configured."
MsgQueued        == "Email queued for delivery."
MsgGmailError    == "Gmail API error."

NoResult ==
  [keys |-> {}, status |-> "", message |-> "", to |-> <<>>,
   message_id |-> <<>>, emails |-> <<>>]

ErrorResult(m) ==
  [NoResult EXCEPT !.keys = {"status", "message"}, !.status = "error",
                   !.message = m]

GmailErrorResult ==
  [NoResult EXCEPT !.keys = {"status", "message", "detail"},
                   !.status = "error", !.message = MsgGmailError]

\* What an executor method does before any external interaction: it
\* returns a result, or goes on to the OAuth path.
Returns(res) == [oauth |-> FALSE, res |-> res]
ViaOAuth     == [oauth |-> TRUE, res |-> NoResult]

\* A slip in send_email: the credential mode is selected before the input
\* is validated.
send_email_mode_first(e, to, subject, body) ==
  IF has_oauth_config(e) THEN ViaOAuth
  ELSE IF ~has_credentials(e) THEN Returns(ErrorResult(MsgNotConfigured))
  ELSE IF to = <<>> \/ subject = <<>> \/ body = <<>>
    THEN Returns(ErrorResult(MsgRequired))
  ELSE Returns([NoResult EXCEPT !.keys = {"status", "message", "to"},
                                !.status = "queued", !.message = MsgQueued,
                                !.to = to])

\* GoogleWorkspaceMCP.send_email
send_email(e, to, subject, body) ==
  IF to = <<>> \/ subject = <<>> \/ body = <<>>
    THEN Returns(ErrorResult(MsgRequired))
  ELSE IF has_oauth_config(e) THEN ViaOAuth
  ELSE IF ~has_credentials(e) THEN Returns(ErrorResult(MsgNotConfigured))
  ELSE Returns([NoResult EXCEPT !.keys = {"status", "message", "to"},
                                !.status = "queued", !.message = MsgQueued,
                                !.to = to])

\* GoogleWorkspaceMCP.delete_email
delete_email(e, message_id) ==
  IF message_id = <<>> THEN Returns(ErrorResult(MsgIdRequired))
  ELSE IF has_oauth_config(e) THEN ViaOAuth
  ELSE IF ~has_credentials(e) THEN Returns(ErrorResult(MsgNotConfigured))
  ELSE Returns([NoResult EXCEPT !.keys = {"status", "message_id"},
                                !.status = "deleted",
                                !.message_id = message_id])

SampleEmail == "sample-123"

\* A slip in list_emails: the sample entry is returned without credentials
\* too, beside the warning.
list_emails_sample_always(e, query) ==
  IF has_oauth_config(e) THEN ViaOAuth
  ELSE IF ~has_credentials(e)
    THEN Returns([NoResult EXCEPT !.keys = {"emails", "warning"},
                                  !.message = MsgNotConfigured,
                                  !.emails = <<SampleEmail>>])
  ELSE Returns([NoResult EXCEPT !.keys = {"emails", "query"},
                                !.emails = <<SampleEmail>>])

\* GoogleWorkspaceMCP.list_emails
list_emails(e, query) ==
  IF has_oauth_config(e) THEN ViaOAuth
  ELSE IF ~has_credentials(e)
    THEN Returns([NoResult EXCEPT !.keys = {"emails", "warning"},
                                  !.message = MsgNotConfigured])
  ELSE Returns([NoResult EXCEPT !.keys = {"emails", "query"},
                                !.emails = <<SampleEmail>>])

\* The outcomes of a call of the mail API: it answers, it answers with an
\* HTTP error (googleapiclient raises HttpError), or the transport fails
\* (an exception that is not an HttpError).
MailOutcomes == {"ok", "HttpError", "TransportError"}

UpstreamId    == <<"u", "1">>
UpstreamLists == {<<>>, <<"u1">>}

\* GoogleWorkspaceMCP._send_email_oauth, from the send call on.
send_email_oauth(outcome) ==
  IF outcome = "ok"
    THEN [exc |-> "", res |-> [NoResult EXCEPT !.keys = {"status", "message_id"},
                                               !.status = "sent",
                                               !.message_id = UpstreamId]]
  ELSE IF outcome = "HttpError" THEN [exc |-> "", res |-> GmailErrorResult]
  ELSE [exc |-> outcome, res |-> NoResult]

\* GoogleWorkspaceMCP._delete_email_oauth, from the delete call on.
delete_email_oauth(outcome, message_id) ==
  IF outcome = "ok"
    THEN [exc |-> "", res |-> [NoResult EXCEPT !.keys = {"status", "message_id"},
                                               !.status = "deleted",
                                               !.message_id = message_id]]
  ELSE IF outcome = "HttpError" THEN [exc |-> "", res |-> GmailErrorResult]
  ELSE [exc |-> outcome, res |-> NoResult]

\* GoogleWorkspaceMCP._list_emails_oauth, from the list call on.
list_emails_oauth(outcome, found) ==
  IF outcome = "ok"
    THEN [exc |-> "", res |-> [NoResult EXCEPT !.keys = {"emails", "query"},
                                               !.emails = found]]
  ELSE IF outcome = "HttpError"
    THEN [exc |-> "", res |-> [NoResult EXCEPT !.keys = {"emails", "error", "detail"}]]
  ELSE [exc |-> outcome, res |-> NoResult]

-----------------------------------------------------------------------------
(* The chat provider dispatcher.                                           *)

W_gemini == <<"g","e","m","i","n","i">>
W_openai == <<"o","p","e","n","a","i">>

\* A slip in build_chat_response: the provider name is compared as sent,
\* without lower().
build_chat_response_case_sensitive(provider, e) ==
  IF provider = W_gemini THEN
    IF e.gemini_api_key = ""
      THEN [call |-> "", code |-> 400, detail |-> "GEMINI_API_KEY is not set."]
    ELSE IF e.gemini_model = ""
      THEN [call |-> "", code |-> 400, detail |-> "GEMINI_MODEL is not set."]
    ELSE [call |-> "gemini", code |-> 0, detail |-> ""]
  ELSE
    IF e.openai_api_key = ""
      THEN [call |-> "", code |-> 400, detail |-> "OPENAI_API_KEY is not set."]
    ELSE IF e.openai_model = ""
      THEN [call |-> "", code |-> 400, detail |-> "OPENAI_MODEL is not set."]
    ELSE [call |-> "openai", code |-> 0, detail |-> ""]

\* build_chat_response, up to the provider call: the HTTPException it
\* raises, or the provider it calls.
build_chat_response(provider, e) ==
  IF Lower(provider) = W_gemini THEN
    IF e.gemini_api_key = ""
      THEN [call |-> "", code |-> 400, detail |-> "GEMINI_API_KEY is not set."]
    ELSE IF e.gemini_model = ""
      THEN [call |-> "", code |-> 400, detail |-> "GEMINI_MODEL is not set."]
    ELSE [call |-> "gemini", code |-> 0, detail |-> ""]
  ELSE
    IF e.openai_api_key = ""
      THEN [call |-> "", code |-> 400, detail |-> "OPENAI_API_KEY is not set."]
    ELSE IF e.openai_model = ""
      THEN [call |-> "", code |-> 400, detail |-> "OPENAI_MODEL is not set."]
    ELSE [call |-> "openai", code |-> 0, detail |-> ""]

\* The outcomes of requests.post to a chat provider: a 2xx answer of the
\* expected structure, a 2xx answer without it (data["choices"] or
\* data["candidates"] raises KeyError), a non-2xx status (raise_for_status
\* raises requests.HTTPError) and a transport failure (ConnectionError,
\* Timeout); the last two are requests.RequestException.
ChatOutcomes == {"ok", "KeyError", "HTTPError", "ConnectionError"}

IsRequestException(x) == x \in {"HTTPError", "ConnectionError"}

-----------------------------------------------------------------------------
(* The state.                                                              *)

VARIABLES
  env,        \* os.environ, as the from_env() methods read it
  tokenFile,  \* the file at oauth_config.token_file
  port,       \* who listens on localhost:8080 (0: nobody)
  req,        \* per worker: the request it is handling
  pin,        \* the intent parser alone: the message's parts
  pout        \* the intent parser alone: parse_chat_intent's result

vars == <<env, tokenFile, port, req, pin, pout>>

\* The workers of the host server.  One worker handles one request at a
\* time; two workers handle two requests concurrently.
Workers == {1, 2}

\* A token, in the file or in memory (google.oauth2 Credentials).
\*   st: "absent" (no file), "corrupt" (from_authorized_user_file raises),
\*       "valid", "expired", "notoken" (no access token and no expiry: not
\*       valid, not expired), "none" (creds is None)
\*   rt: it holds a refresh token;  by: the worker that obtained it (0: it
\*       was there before the server started)
Token(st, rt, by) == [st |-> st, rt |-> rt, by |-> by]
NoCreds == Token("none", FALSE, 0)

SeedTokens ==
  {Token("absent", FALSE, 0), Token("corrupt", FALSE, 0),
   Token("valid", TRUE, 0), Token("expired", TRUE, 0),
   Token("expired", FALSE, 0), Token("notoken", FALSE, 0)}

\* What a handler produced: the exception that left it (exc, "" if it
\* returned), the HTTP status and the keys of the body it returned, the
\* error text of an {"error": ...} body, the provider of a chat reply, and
\* the executor's result when the body is or holds one.
NoOutcome ==
  [exc |-> "", code |-> 0, keys |-> {}, error |-> "", provider |-> "",
   hasAction |-> FALSE, action |-> NoResult]

Raised(x, code, detail) ==
  [NoOutcome EXCEPT !.exc = x, !.code = code, !.error = detail]

\* JSONResponse(status_code=code, content={"error": detail})
ErrorResponse(code, detail) ==
  [NoOutcome EXCEPT !.code = code, !.keys = {"error"}, !.error = detail]

\* The handler's return value once the executor method has returned res.
ActionResponse(ep, res) ==
  IF ep = "chat"
    THEN [NoOutcome EXCEPT !.code = 200, !.keys = {"reply", "action"},
                           !.hasAction = TRUE, !.action = res]
    ELSE [NoOutcome EXCEPT !.code = 200, !.keys = res.keys,
                           !.hasAction = TRUE, !.action = res]

\* An exception x raised inside the executor, seen from the handler.  The
\* email handlers have no try; chat() catches HTTPException and
\* requests.RequestException, and the executor raises neither.
ActionRaised(ep, x) == Raised(x, 0, "")

Idle ==
  [pc |-> "idle", ep |-> "", op |-> "", message |-> <<>>,
   dispatched |-> FALSE, provider |-> <<>>,
   intent |-> NoIntent, to |-> <<>>, subject |-> <<>>, body |-> <<>>,
   message_id |-> <<>>, query |-> <<>>,
   creds |-> NoCreds, how |-> "",
   tokRead |-> FALSE, tokWrote |-> FALSE, written |-> NoCreds,
   flow |-> FALSE, refreshed |-> FALSE, mailCall |-> FALSE,
   chatCall |-> "", peerWrote |-> FALSE, portBusy |-> FALSE,
   out |-> NoOutcome]

InFlight(r) == req[r].pc \notin {"idle", "done"}

\* The handler is left: with a return value or with an exception.
Done(q, outcome) == [q EXCEPT !.pc = "done", !.out = outcome]

\* The executor method was entered with x its first part's result.
AfterExecutor(q, x) ==
  IF x.oauth THEN [q EXCEPT !.pc = "oauth_load"]
  ELSE Done(q, ActionResponse(q.ep, x.res))

-----------------------------------------------------------------------------
(* The inputs.                                                             *)

A_B_COM == <<"a","@","b",".","c","o","m">>

ToValues      == {<<>>, A_B_COM}
SubjectValues == {<<>>, <<"s">>}
BodyValues    == {<<>>, <<"b">>}
IdValues      == {<<>>, <<"m", "1">>}
QueryValues   == {PyNone, <<>>, <<"q">>}

\* payload.get("provider", "openai"): absent, or what the client sent.
ProviderValues ==
  {W_openai, W_gemini, <<"G","E","M","I","N","I">>, <<"G","e","m","i","n","i">>,
   <<>>, <<"g","e","m">>, <<"g","e","m","i","n","i"," ">>}

ESC == <<BS, "s">>

ChatMessages ==
  {<<>>, <<" ", " ">>,
   <<"h","e","l","l","o">>,
   <<" ">> \o W_list_emails \o <<"\n">>,
   W_list_emails \o <<" ","f","r","o","m"," ","b","o","s","s">>,
   W_list_emails \o ESC \o <<"q">>,
   W_delete_email \o <<" ","a","b","c","-","1","2","3">>,
   W_delete_email \o ESC \o <<"w","-","w">>,
   W_send_email_to \o <<" ">> \o A_B_COM \o <<" ">> \o W_subject \o <<" ","H","i"," ">>
      \o W_body \o <<" ","Y","o">>,
   W_send_email_to \o ESC \o A_B_COM \o ESC \o W_subject \o ESC \o <<"H","i">>
      \o ESC \o W_body \o ESC \o <<"Y","o">>,
   W_send_email_to \o ESC \o A_B_COM}

-----------------------------------------------------------------------------
(* The handlers, up to their first external interaction.                   *)

\* POST /api/email/send
SendHandler(r) ==
  /\ req[r].pc = "idle"
  /\ \E to \in ToValues, subject \in SubjectValues, body \in BodyValues :
       req' = [req EXCEPT ![r] =
                 AfterExecutor([Idle EXCEPT !.ep = "send", !.op = "send",
                                            !.to = to, !.subject = subject,
                                            !.body = body],
                               send_email(env, to, subject, body))]
  /\ UNCHANGED <<env, tokenFile, port, pin, pout>>

\* POST /api/email/delete
DeleteHandler(r) ==
  /\ req[r].pc = "idle"
  /\ \E id \in IdValues :
       req' = [req EXCEPT ![r] =
                 AfterExecutor([Idle EXCEPT !.ep = "delete", !.op = "delete",
                                            !.message_id = id],
                               delete_email(env, id))]
  /\ UNCHANGED <<env, tokenFile, port, pin, pout>>

\* GET /api/email/list
ListHandler(r) ==
  /\ req[r].pc = "idle"
  /\ \E query \in QueryValues :
       req' = [req EXCEPT ![r] =
                 AfterExecutor([Idle EXCEPT !.ep = "list", !.op = "list",
                                            !.query = query],
                               list_emails(env, query))]
  /\ UNCHANGED <<env, tokenFile, port, pin, pout>>

\* parse_chat_intent(message) for the stripped message of each input,
\* computed once: it depends on nothing but the message.
IntentOf == [raw \in ChatMessages |-> parse_chat_intent(Strip(raw))]

\* chat(), from its first line to the first external interaction.
chat(raw, provider, e) ==
  LET message == Strip(raw)
      intent  == IntentOf[raw]
      q0      == [Idle EXCEPT !.ep = "chat", !.message = message]
      q       == [q0 EXCEPT !.intent = intent]
      qp      == [q EXCEPT !.provider = provider, !.dispatched = TRUE]
  IN  IF message = <<>>
        THEN Done(q0, Raised("HTTPException", 400, "Message is required."))
      ELSE IF intent.intent = "send_email"
        THEN AfterExecutor([q EXCEPT !.op = "send", !.to = intent.to,
                                     !.subject = intent.subject,
                                     !.body = intent.body],
                           send_email(e, intent.to, intent.subject, intent.body))
      ELSE IF intent.intent = "delete_email"
        THEN AfterExecutor([q EXCEPT !.op = "delete",
                                     !.message_id = intent.message_id],
                           delete_email(e, intent.message_id))
      ELSE IF intent.intent = "list_emails"
        THEN AfterExecutor([q EXCEPT !.op = "list", !.query = intent.query],
                           list_emails(e, intent.query))
      ELSE LET b == build_chat_response(provider, e)
           IN  IF b.call = ""
                 THEN Done(qp, ErrorResponse(b.code, b.detail))
                 ELSE [qp EXCEPT !.pc = "chat_call", !.chatCall = b.call]

\* POST /api/chat
ChatHandler(r) ==
  /\ req[r].pc = "idle"
  /\ \E raw \in ChatMessages, provider \in ProviderValues :
       req' = [req EXCEPT ![r] = chat(raw, provider, env)]
  /\ UNCHANGED <<env, tokenFile, port, pin, pout>>

\* call_openai / call_gemini: the request and the unwrapping of the answer,
\* and chat()'s two except clauses around them.
ChatCall(r) ==
  /\ req[r].pc = "chat_call"
  /\ \E outcome \in ChatOutcomes :
       req' = [req EXCEPT ![r] =
                 Done(@, IF outcome = "ok"
                           THEN [NoOutcome EXCEPT !.code = 200,
                                                  !.keys = {"provider", "reply"},
                                                  !.provider = req[r].chatCall]
                         ELSE IF IsRequestException(outcome)
                           THEN ErrorResponse(502, "Upstream chat provider request failed.")
                         ELSE Raised(outcome, 0, ""))]
  /\ UNCHANGED <<env, tokenFile, port, pin, pout>>

-----------------------------------------------------------------------------
(* GoogleWorkspaceMCP._get_oauth_credentials, one action per interaction   *)
(* with the token file, the token endpoint, port 8080 and the user.        *)

\* os.path.exists(token_file) and Credentials.from_authorized_user_file,
\* then the two tests that follow (lines 124 and 126).
OAuthLoad(r) ==
  /\ req[r].pc = "oauth_load"
  /\ req' = [req EXCEPT ![r] =
       LET q == [@ EXCEPT !.tokRead = TRUE]
       IN  IF tokenFile.st = "absent"
             THEN [q EXCEPT !.pc = "flow_start"]
           ELSE IF tokenFile.st = "corrupt"
             THEN Done(q, ActionRaised(q.ep, "ValueError"))
           ELSE IF tokenFile.st = "expired" /\ tokenFile.rt
             THEN [q EXCEPT !.pc = "oauth_refresh", !.creds = tokenFile]
           ELSE IF tokenFile.st /= "valid"
             THEN [q EXCEPT !.pc = "flow_start", !.creds = tokenFile]
           ELSE [q EXCEPT !.pc = "api", !.creds = tokenFile, !.how = "cached"]]
  /\ UNCHANGED <<env, tokenFile, port, pin, pout>>

\* creds.refresh(Request()): it succeeds and the credentials are valid, so
\* that the block of line 126 is skipped, or it raises RefreshError.
OAuthRefresh(r) ==
  /\ req[r].pc = "oauth_refresh"
  /\ \E ok \in BOOLEAN :
       req' = [req EXCEPT ![r] =
                 IF ok THEN [@ EXCEPT !.pc = "api", !.how = "refresh",
                                      !.refreshed = TRUE,
                                      !.creds = Token("valid", TRUE, r)]
                 ELSE Done(@, ActionRaised(@.ep, "RefreshError"))]
  /\ UNCHANGED <<env, tokenFile, port, pin, pout>>

\* flow.run_local_server(port=8080): the local server binds the port, or
\* the bind fails (OSError: address already in use).
FlowStart(r) ==
  /\ req[r].pc = "flow_start"
  /\ req' = [req EXCEPT ![r] =
               IF port = 0 THEN [@ EXCEPT !.pc = "flow_wait", !.flow = TRUE]
               ELSE Done([@ EXCEPT !.portBusy = TRUE],
                         ActionRaised(@.ep, "OSError"))]
  /\ port' = IF port = 0 THEN r ELSE port
  /\ UNCHANGED <<env, tokenFile, pin, pout>>

\* run_local_server returns the new credentials once the user has
\* authorized, or raises when the authorization fails.
FlowFinish(r) ==
  /\ req[r].pc = "flow_wait"
  /\ \E ok \in BOOLEAN :
       req' = [req EXCEPT ![r] =
                 IF ok THEN [@ EXCEPT !.pc = "persist", !.how = "flow",
                                      !.creds = Token("valid", TRUE, r)]
                 ELSE Done(@, ActionRaised(@.ep, "AuthorizationError"))]
  /\ port' = 0
  /\ UNCHANGED <<env, tokenFile, pin, pout>>

\* What the token file holds after the with-block of lines 140-141: the
\* credentials, its old contents (open failed) or a truncated file (write
\* failed).
PersistOutcomes == {"ok", "open fails", "write fails"}

\* open(token_file, "w") and token.write(creds.to_json())
Persist(r) ==
  /\ req[r].pc = "persist"
  /\ \E outcome \in PersistOutcomes :
       LET file == IF outcome = "ok" THEN req[r].creds
                   ELSE IF outcome = "write fails" THEN Token("corrupt", FALSE, r)
                   ELSE tokenFile
       IN  /\ tokenFile' = file
           /\ req' = [w \in Workers |->
                IF w = r
                  THEN IF outcome = "ok"
                         THEN [req[w] EXCEPT !.pc = "api", !.tokWrote = TRUE,
                                             !.written = file]
                         ELSE Done(req[w], ActionRaised(req[w].ep, "OSError"))
                ELSE IF InFlight(w) /\ outcome /= "open fails"
                  THEN [req[w] EXCEPT !.peerWrote = TRUE]
                ELSE req[w]]
  /\ UNCHANGED <<env, port, pin, pout>>

\* _send_email_oauth / _delete_email_oauth / _list_emails_oauth, from
\* build("gmail", ...) on: the calls of the mail API and the except clause.
Api(r) ==
  /\ req[r].pc = "api"
  /\ \E outcome \in MailOutcomes, found \in UpstreamLists :
       LET x == IF req[r].op = "send" THEN send_email_oauth(outcome)
                ELSE IF req[r].op = "delete"
                  THEN delete_email_oauth(outcome, req[r].message_id)
                ELSE list_emails_oauth(outcome, found)
       IN  req' = [req EXCEPT ![r] =
                     Done([@ EXCEPT !.mailCall = TRUE],
                          IF x.exc /= "" THEN ActionRaised(@.ep, x.exc)
                          ELSE ActionResponse(@.ep, x.res))]
  /\ UNCHANGED <<env, tokenFile, port, pin, pout>>

\* The response is sent and the worker takes the next request.
Complete(r) ==
  /\ req[r].pc = "done"
  /\ req' = [req EXCEPT ![r] = Idle]
  /\ UNCHANGED <<env, tokenFile, port, pin, pout>>

\* Time passes: the access token in the file reaches its expiry
\* (creds.expired of line 124).
TokenExpires ==
  /\ tokenFile.st = "valid"
  /\ tokenFile' = [tokenFile EXCEPT !.st = "expired"]
  /\ UNCHANGED <<env, port, req, pin, pout>>

-----------------------------------------------------------------------------
(* The intent parser alone, on messages built from their parts.            *)

MaxPad == 2

Spaces(n) == [i \in 1..n |-> " "]

\* Ordinary whitespace between the words of a message.
Whitespace == {Spaces(n) : n \in 1..MaxPad} \cup {<<"\n">>}

\* The separators tried: ordinary whitespace, and the two characters
\* backslash and s.
Separators == Whitespace \cup {ESC}

Forms == {"send", "send free text", "delete", "list", "chat"}

ParseInputs ==
  [form : Forms, sep : Separators, upper : BOOLEAN,
   x : {A_B_COM, <<"b","o","b">>, <<"w","-","w">>},
   y : {<<"H","i">>, <<"H","i"," ","y","o","u">>},
   z : {<<"Y","o">>, <<"c","a","l","l"," ","m","e">>}]

NoParseInput ==
  [form |-> "chat", sep |-> <<" ">>, upper |-> FALSE,
   x |-> A_B_COM, y |-> <<"H","i">>, z |-> <<"Y","o">>]

UpperChar(c) ==
  IF \E i \in 1..Len(LowerChars) : LowerChars[i] = c
    THEN UpperChars[CHOOSE i \in 1..Len(LowerChars) : LowerChars[i] = c]
    ELSE c

Keyword(i, w) == IF i.upper THEN [k \in 1..Len(w) |-> UpperChar(w[k])] ELSE w

\* The message with the parts i.
MessageOf(i) ==
  IF i.form = "send"
    THEN Keyword(i, W_send_email_to) \o i.sep \o i.x \o i.sep
           \o Keyword(i, W_subject) \o i.sep \o i.y \o i.sep
           \o Keyword(i, W_body) \o i.sep \o i.z
  ELSE IF i.form = "send free text"
    THEN Keyword(i, W_send_email_to) \o i.sep \o i.x \o i.sep \o i.z
  ELSE IF i.form = "delete"
    THEN Keyword(i, W_delete_email) \o i.sep \o i.x
  ELSE IF i.form = "list"
    THEN Keyword(i, W_list_emails) \o i.sep \o i.y
  ELSE i.y \o i.sep \o i.z

Pending == [intent |-> "pending"]

\* parse_chat_intent is applied to the message.
Parse ==
  /\ pout = Pending
  /\ pout' = parse_chat_intent(MessageOf(pin))
  /\ UNCHANGED <<env, tokenFile, port, req, pin>>

-----------------------------------------------------------------------------
(* The specifications.                                                     *)

Handle(r) ==
  \/ SendHandler(r)
  \/ DeleteHandler(r)
  \/ ListHandler(r)
  \/ ChatHandler(r)
  \/ ChatCall(r)
  \/ OAuthLoad(r)
  \/ OAuthRefresh(r)
  \/ FlowStart(r)
  \/ FlowFinish(r)
  \/ Persist(r)
  \/ Api(r)
  \/ Complete(r)

\* Requests handled one at a time, in every environment.
Init ==
  /\ env \in Environments
  /\ tokenFile \in SeedTokens
  /\ port = 0
  /\ req = [r \in Workers |-> Idle]
  /\ pin = NoParseInput
  /\ pout = NoIntent

Next == TokenExpires \/ Handle(1)

Spec == Init /\ [][Next]_vars

\* Two workers, in the environment with every variable set.
ConcurrentEnvironments == {e \in Environments : \A f \in DOMAIN e : e[f] /= ""}

InitConcurrent ==
  /\ env \in ConcurrentEnvironments
  /\ tokenFile \in SeedTokens
  /\ port = 0
  /\ req = [r \in Workers |-> Idle]
  /\ pin = NoParseInput
  /\ pout = NoIntent

NextConcurrent == TokenExpires \/ \E r \in Workers : Handle(r)

SpecConcurrent == InitConcurrent /\ [][NextConcurrent]_vars

\* The intent parser applied to each message.
InitIntent ==
  /\ env = NoEnv
  /\ tokenFile = Token("absent", FALSE, 0)
  /\ port = 0
  /\ req = [r \in Workers |-> Idle]
  /\ pin \in ParseInputs
  /\ pout = Pending

NextIntent == Parse

SpecIntent == InitIntent /\ [][NextIntent]_vars

-----------------------------------------------------------------------------
(* The claims.                                                             *)

\* The request of worker r has entered the executor method op.
InExecutor(r, op) == req[r].pc /= "idle" /\ req[r].op = op

\* The request of worker r touched nothing outside the process: no access
\* to the token file, no refresh, no authorization flow, no mail API call.
NoSideEffect(r) ==
  /\ ~req[r].tokRead /\ ~req[r].tokWrote
  /\ ~req[r].refreshed /\ ~req[r].flow
  /\ ~req[r].mailCall

\* The executor method returned the dict {status: "error", message: m}.
ReturnedError(r, m) ==
  /\ req[r].pc = "done"
  /\ req[r].out.exc = ""
  /\ req[r].out.hasAction
  /\ req[r].out.action.keys = {"status", "message"}
  /\ req[r].out.action.status = "error"
  /\ req[r].out.action.message = m

SendInputValid(r) ==
  req[r].to /= <<>> /\ req[r].subject /= <<>> /\ req[r].body /= <<>>

\* C1: in every credential configuration, send_email with an empty to,
\* subject or body returns {status: "error", message: "to, subject, and
\* body are required."} and delete_email with an empty message_id returns
\* {status: "error", message: "message_id is required."}, and neither
\* touches the token file, runs an OAuth flow or calls the mail API.
C1_ValidationFirst ==
  \A r \in Workers :
    /\ (InExecutor(r, "send") /\ ~SendInputValid(r))
         => /\ ReturnedError(r, "to, subject, and body are required.")
            /\ NoSideEffect(r)
    /\ (InExecutor(r, "delete") /\ req[r].message_id = <<>>)
         => /\ ReturnedError(r, "message_id is required.")
            /\ NoSideEffect(r)

\* C1's case: send_email was called with an empty recipient while both
\* the OAuth variables and the service-account variables are set, and
\* returned the validation error.
C1_Witness ==
  /\ InExecutor(1, "send") /\ req[1].pc = "done"
  /\ req[1].to = <<>> /\ req[1].subject /= <<>> /\ req[1].body /= <<>>
  /\ env.client_id /= "" /\ env.client_secret /= ""
  /\ env.client_email /= "" /\ env.private_key /= "" /\ env.delegated_user /= ""
  /\ req[1].out.action.message = "to, subject, and body are required."

OAuthSet == env.client_id /= "" /\ env.client_secret /= ""

ServiceAccountSet ==
  env.client_email /= "" /\ env.private_key /= "" /\ env.delegated_user /= ""

\* The request of worker r is on, or went through, the OAuth path.
OnOAuthPath(r) ==
  \/ req[r].pc \in {"oauth_load", "oauth_refresh", "flow_start", "flow_wait",
                    "persist", "api"}
  \/ req[r].pc = "done" /\ req[r].tokRead

ValidCall(r) ==
  \/ InExecutor(r, "send") /\ SendInputValid(r)
  \/ InExecutor(r, "delete") /\ req[r].message_id /= <<>>
  \/ InExecutor(r, "list")

\* The simulated success of the service-account mode.
Simulated(r) ==
  /\ req[r].pc = "done" /\ req[r].out.exc = "" /\ req[r].out.hasAction
  /\ NoSideEffect(r)
  /\ req[r].op = "send" =>
       /\ req[r].out.action.status = "queued"
       /\ "to" \in req[r].out.action.keys
       /\ req[r].out.action.to = req[r].to
  /\ req[r].op = "delete" =>
       /\ req[r].out.action.status = "deleted"
       /\ req[r].out.action.message_id = req[r].message_id
  /\ req[r].op = "list" =>
       /\ req[r].out.action.keys = {"emails", "query"}
       /\ req[r].out.action.emails = <<"sample-123">>

\* The result without credentials.
NotConfigured(r) ==
  /\ NoSideEffect(r)
  /\ req[r].op \in {"send", "delete"} =>
       ReturnedError(r, "Google Workspace credentials are not configured.")
  /\ req[r].op = "list" =>
       /\ req[r].pc = "done" /\ req[r].out.exc = "" /\ req[r].out.hasAction
       /\ req[r].out.action.keys = {"emails", "warning"}

\* C2: with valid input, send_email, delete_email and list_emails take the
\* OAuth path whenever the OAuth client id and secret are both set, also
\* when the service-account variables are set; otherwise, with all three
\* service-account variables set, they return the simulated success
\* (queued with the recipient, deleted, the sample list) without touching
\* the token file or the network; otherwise the no-credentials result.
C2_ModeOrder ==
  \A r \in Workers :
    ValidCall(r) =>
      IF OAuthSet THEN OnOAuthPath(r)
      ELSE IF ServiceAccountSet THEN Simulated(r)
      ELSE NotConfigured(r)

\* C2's case: send_email("a@b.com", "s", "b") with the service-account
\* variables set and only one of the two OAuth variables.
C2_Witness ==
  /\ InExecutor(1, "send") /\ req[1].pc = "done"
  /\ req[1].to = A_B_COM /\ req[1].subject = <<"s">> /\ req[1].body = <<"b">>
  /\ env.client_id /= "" /\ env.client_secret = ""
  /\ ServiceAccountSet
  /\ req[1].out.action.status = "queued"

NoCredentials == ~OAuthSet /\ ~ServiceAccountSet

\* C3 as stated: without credentials list_emails() returns a non-empty
\* emails array of exactly one sample entry, with a warning.
C3_Original ==
  \A r \in Workers :
    (NoCredentials /\ InExecutor(r, "list")) =>
      /\ req[r].pc = "done"
      /\ "warning" \in req[r].out.action.keys
      /\ Len(req[r].out.action.emails) = 1

\* C3, amended: without credentials list_emails() returns an empty emails
\* array together with a warning field, and send_email and delete_email
\* with valid input return status "error".
C3_NoCredentials ==
  \A r \in Workers :
    (NoCredentials /\ ValidCall(r)) =>
      /\ req[r].pc = "done" /\ req[r].out.exc = "" /\ req[r].out.hasAction
      /\ req[r].op = "list" =>
           /\ {"emails", "warning"} \subseteq req[r].out.action.keys
           /\ req[r].out.action.emails = <<>>
      /\ req[r].op \in {"send", "delete"} =>
           /\ "status" \in req[r].out.action.keys
           /\ req[r].out.action.status = "error"

\* C3's case: list_emails() has returned while only two of the three
\* service-account variables are set.
C3_Witness ==
  /\ InExecutor(1, "list") /\ req[1].pc = "done"
  /\ ~OAuthSet
  /\ env.client_email /= "" /\ env.private_key /= "" /\ env.delegated_user = ""
  /\ "warning" \in req[1].out.action.keys

\* C4: every result the executor returns carries a status that is one of
\* queued, sent, deleted and error.
C4_StatusAlways ==
  \A r \in Workers :
    (req[r].pc = "done" /\ req[r].out.exc = "" /\ req[r].out.hasAction) =>
      /\ "status" \in req[r].out.action.keys
      /\ req[r].out.action.status \in {"queued", "sent", "deleted", "error"}

\* The provider name is "gemini" up to the case of its letters.
IsGeminiName(p) ==
  /\ Len(p) = 6
  /\ p[1] \in {"g", "G"} /\ p[2] \in {"e", "E"} /\ p[3] \in {"m", "M"}
  /\ p[4] \in {"i", "I"} /\ p[5] \in {"n", "N"} /\ p[6] \in {"i", "I"}

\* The chat handler answered 400 {"error": detail} without calling a
\* provider.
ConfigError(r, detail) ==
  /\ req[r].pc = "done"
  /\ req[r].chatCall = ""
  /\ req[r].out.exc = "" /\ req[r].out.code = 400
  /\ req[r].out.error = detail

\* The provider is called: the request is about to be sent, or was.
Calls(r, provider) ==
  /\ req[r].chatCall = provider
  /\ req[r].pc \in {"chat_call", "done"}

\* C5: the Gemini provider is selected exactly for the names that equal
\* "gemini" ignoring case and OpenAI for every other name; the selected
\* provider's API key, then its model, is checked before any request, and
\* an empty one gives a 400 naming that variable and no request; what
\* happens is decided by the selected provider's two variables alone.
C5_Dispatch ==
  \A r \in Workers :
    req[r].dispatched =>
      IF IsGeminiName(req[r].provider) THEN
        IF env.gemini_api_key = "" THEN ConfigError(r, "GEMINI_API_KEY is not set.")
        ELSE IF env.gemini_model = "" THEN ConfigError(r, "GEMINI_MODEL is not set.")
        ELSE Calls(r, "gemini")
      ELSE
        IF env.openai_api_key = "" THEN ConfigError(r, "OPENAI_API_KEY is not set.")
        ELSE IF env.openai_model = "" THEN ConfigError(r, "OPENAI_MODEL is not set.")
        ELSE Calls(r, "openai")

\* C5's case: the provider "GEMINI" with the Gemini key unset and both
\* OpenAI variables set.
C5_Witness ==
  /\ req[1].dispatched /\ req[1].pc = "done"
  /\ req[1].provider = <<"G","E","M","I","N","I">>
  /\ env.gemini_api_key = "" /\ env.gemini_model /= ""
  /\ env.openai_api_key /= "" /\ env.openai_model /= ""
  /\ req[1].out.error = "GEMINI_API_KEY is not set."

\* C6: whatever the external collaborators do, every handler returns a
\* response value: no exception leaves it.  (An HTTPException is the
\* framework's way to return an error response and is not counted.)
C6_NoEscape ==
  \A r \in Workers :
    req[r].pc = "done" => req[r].out.exc \in {"", "HTTPException"}

\* C7: for a message "send email to X subject Y body Z" whose words are
\* separated by ordinary whitespace, parse_intent returns the send-email
\* intent with to = X, subject = Y and body = Z.
C7_SendParsed ==
  (pout /= Pending /\ pin.form = "send" /\ pin.sep \in Whitespace) =>
    pout = [intent |-> "send_email", to |-> pin.x, subject |-> pin.y,
            body |-> pin.z]

\* C8: every response of POST /api/chat is {reply} for plain chat,
\* {reply, action} exactly when the message parses to an email intent (and
\* then no provider is called and no chat configuration checked), or
\* {error} with status 400 or 502, the empty message included.
C8_ChatShapes ==
  \A r \in Workers :
    (req[r].pc = "done" /\ req[r].ep = "chat") =>
      /\ req[r].out.exc = ""
      /\ \/ /\ req[r].out.keys = {"reply"}
            /\ req[r].intent = NoIntent
         \/ /\ req[r].out.keys = {"reply", "action"}
            /\ req[r].intent /= NoIntent
            /\ req[r].chatCall = "" /\ ~req[r].dispatched
         \/ /\ req[r].out.keys = {"error"}
            /\ req[r].out.code \in {400, 502}
      /\ (req[r].message /= <<>> /\ req[r].intent /= NoIntent)
           => req[r].out.keys = {"reply", "action"}

\* The call proceeds: the credentials are handed to the mail API.
Proceeds(r) == req[r].pc = "api" \/ (req[r].pc = "done" /\ req[r].mailCall)

\* C9: a valid cached token is used with no refresh, no flow and no write
\* of the token file; a token obtained by a successful refresh or a
\* successful authorization is in the token file before the call
\* proceeds; the file is not written when refresh or authorization fails;
\* and a failed write is not reported as a successful action.
C9_Persistence ==
  \A r \in Workers :
    /\ req[r].how = "cached"
         => ~req[r].refreshed /\ ~req[r].flow /\ ~req[r].tokWrote
    /\ (Proceeds(r) /\ req[r].how \in {"refresh", "flow"})
         => req[r].tokWrote /\ req[r].written = req[r].creds
    /\ (req[r].pc = "done" /\ req[r].out.exc \in {"RefreshError", "AuthorizationError"})
         => ~req[r].tokWrote
    /\ (req[r].pc = "done" /\ req[r].out.exc = "" /\ req[r].how = "flow")
         => req[r].tokWrote

\* C10: of two requests handled concurrently, neither writes a resource
\* the other reads or writes (here: the token file, written while the
\* other request is in flight), and neither fails in a way it cannot fail
\* alone (here: on port 8080, held by the other request's authorization).
C10_NothingShared ==
  \A r \in Workers :
    /\ ~(req[r].peerWrote /\ (req[r].tokRead \/ req[r].tokWrote))
    /\ ~req[r].portBusy
====
